---- MODULE Spec2Model ----
(***************************************************************************)
(* imgwork (img-magic): one invocation of the command-line tool.           *)
(*                                                                         *)
(* A JavaScript string is modelled as a sequence of one-character strings, *)
(* so that String.startsWith, path.resolve, path.relative, path.join,      *)
(* path.dirname, path.basename and path.extname are computed the way Node  *)
(* computes them on POSIX.  undefined, null and '' are all falsy and the   *)
(* code only ever tests option values for truthiness, so all three are the *)
(* empty sequence.                                                         *)
(***************************************************************************)
EXTENDS Integers, Sequences, FiniteSets, TLC

VARIABLES
    cmd,          \* the subcommand: "convert", "resize", "crop", "optimize"
    options,      \* commander's options object of the subcommand
    files,        \* the <files...> arguments as typed (input specifiers)
    pc,           \* position of the action handler / of processImages
    images,       \* result of findImages(files)
    outputInfo,   \* result of resolveOutputPath(files, options.out || null)
    i,            \* loop index of processImages (1-based here)
    results,      \* processImages' results object
    outputPath,   \* const outputPath of the current loop iteration
    mkdirs,       \* directories created by fs.mkdirSync so far
    written,      \* files written by the image library so far
    calls,        \* every call processFunc(inputFile, outputPath, options)
    attempted,    \* loop indexes whose try block was entered, in order
    status,       \* per file: "pending", "processing", "success" or "failed"
    exitCode,     \* process exit status once pc = "exited"
    disk,         \* fs.readdirSync of every directory on disk at start
    variant,      \* which of the two resizeImage / cropImage bodies runs
    fnIn,         \* arguments of a function called on its own
    fnOut         \* what that function returned

vars == << cmd, options, files, pc, images, outputInfo, i, results,
           outputPath, mkdirs, written, calls, attempted, status, exitCode,
           disk, variant, fnIn, fnOut >>

-----------------------------------------------------------------------------
(* Bounds of the enumeration of command lines. *)

MaxInputs == 2

(* Bound of the enumeration of directory listings. *)
MaxEntries == 2

(* Bound of the widths and heights of images and of crop regions. *)
MaxSize == 4

-----------------------------------------------------------------------------
(* Strings *)

StartsWith(s, p) == Len(p) <= Len(s) /\ SubSeq(s, 1, Len(p)) = p

EndsWith(s, p) == Len(p) <= Len(s) /\ SubSeq(s, Len(s) - Len(p) + 1, Len(s)) = p

LastIndexOf(s, c) ==
    IF \E k \in 1..Len(s) : s[k] = c
    THEN CHOOSE k \in 1..Len(s) : s[k] = c /\ \A j \in (k+1)..Len(s) : s[j] # c
    ELSE 0

IndexOf(s, c) ==
    IF \E k \in 1..Len(s) : s[k] = c
    THEN CHOOSE k \in 1..Len(s) : s[k] = c /\ \A j \in 1..(k-1) : s[j] # c
    ELSE 0

UpperToLower ==
    ("A" :> "a") @@ ("B" :> "b") @@ ("C" :> "c") @@ ("D" :> "d") @@ ("E" :> "e") @@
    ("F" :> "f") @@ ("G" :> "g") @@ ("H" :> "h") @@ ("I" :> "i") @@ ("J" :> "j") @@
    ("K" :> "k") @@ ("L" :> "l") @@ ("M" :> "m") @@ ("N" :> "n") @@ ("O" :> "o") @@
    ("P" :> "p") @@ ("Q" :> "q") @@ ("R" :> "r") @@ ("S" :> "s") @@ ("T" :> "t") @@
    ("U" :> "u") @@ ("V" :> "v") @@ ("W" :> "w") @@ ("X" :> "x") @@ ("Y" :> "y") @@
    ("Z" :> "z")

toLowerCase(s) ==
    [k \in 1..Len(s) |-> IF s[k] \in DOMAIN UpperToLower THEN UpperToLower[s[k]] ELSE s[k]]

DigitVal ==
    ("0" :> 0) @@ ("1" :> 1) @@ ("2" :> 2) @@ ("3" :> 3) @@ ("4" :> 4) @@
    ("5" :> 5) @@ ("6" :> 6) @@ ("7" :> 7) @@ ("8" :> 8) @@ ("9" :> 9)

RECURSIVE DigitsValue(_, _)
DigitsValue(s, acc) ==
    IF s = <<>> \/ s[1] \notin DOMAIN DigitVal THEN acc
    ELSE DigitsValue(Tail(s), 10 * acc + DigitVal[s[1]])

RECURSIVE TrimStart(_)
TrimStart(s) == IF s # <<>> /\ s[1] = " " THEN TrimStart(Tail(s)) ELSE s

RECURSIVE TrimEnd(_)
TrimEnd(s) == IF s # <<>> /\ s[Len(s)] = " " THEN TrimEnd(SubSeq(s, 1, Len(s) - 1)) ELSE s

trim(s) == TrimEnd(TrimStart(s))

(* parseInt(s, 10): leading blanks, an optional sign, then the longest run *)
(* of digits; NaN when there is no digit.                                  *)
parseInt(s) ==
    LET t    == TrimStart(s)
        neg  == t # <<>> /\ t[1] = "-"
        body == IF t # <<>> /\ t[1] \in {"-", "+"} THEN Tail(t) ELSE t
    IN  IF body = <<>> \/ body[1] \notin DOMAIN DigitVal
        THEN [nan |-> TRUE, val |-> 0]
        ELSE [nan |-> FALSE,
              val |-> IF neg THEN 0 - DigitsValue(body, 0) ELSE DigitsValue(body, 0)]

-----------------------------------------------------------------------------
(* Node's path module (POSIX) *)

RECURSIVE Split(_)
Split(s) ==
    IF s = <<>> THEN <<>>
    ELSE IF s[1] = "/" THEN Split(Tail(s))
    ELSE LET k == IndexOf(s, "/")
         IN  IF k = 0 THEN <<s>>
             ELSE <<SubSeq(s, 1, k - 1)>> \o Split(SubSeq(s, k + 1, Len(s)))

RECURSIVE JoinSegs(_)
JoinSegs(segs) ==
    IF segs = <<>> THEN <<>>
    ELSE IF Len(segs) = 1 THEN segs[1]
    ELSE segs[1] \o <<"/">> \o JoinSegs(Tail(segs))

RECURSIVE NormalizeSegs(_, _, _)
NormalizeSegs(segs, acc, abs) ==
    IF segs = <<>> THEN acc
    ELSE LET s == Head(segs)
             next == IF s = <<".">> THEN acc
                     ELSE IF s = <<".", ".">>
                     THEN IF acc # <<>> /\ acc[Len(acc)] # <<".", ".">>
                          THEN SubSeq(acc, 1, Len(acc) - 1)
                          ELSE IF abs THEN acc ELSE Append(acc, s)
                     ELSE Append(acc, s)
         IN  NormalizeSegs(Tail(segs), next, abs)

IsAbsolute(p) == p # <<>> /\ p[1] = "/"

AbsPath(segs) == <<"/">> \o JoinSegs(segs)

cwd == <<"/", "w">>

(* path.resolve(a, b) and path.resolve(p): the arguments right to left     *)
(* until one is absolute, then process.cwd(); normalised, no trailing "/". *)
pathResolve2(a, b) ==
    IF IsAbsolute(b) THEN AbsPath(NormalizeSegs(Split(b), <<>>, TRUE))
    ELSE IF IsAbsolute(a) THEN AbsPath(NormalizeSegs(Split(a) \o Split(b), <<>>, TRUE))
    ELSE AbsPath(NormalizeSegs(Split(cwd) \o Split(a) \o Split(b), <<>>, TRUE))

pathResolve(p) == pathResolve2(cwd, p)

pathNormalize(p) ==
    LET abs   == IsAbsolute(p)
        body  == JoinSegs(NormalizeSegs(Split(p), <<>>, abs))
        trail == p # <<>> /\ p[Len(p)] = "/"
    IN  IF p = <<>> THEN <<".">>
        ELSE IF body = <<>> THEN (IF abs THEN <<"/">> ELSE IF trail THEN <<".", "/">> ELSE <<".">>)
        ELSE (IF abs THEN <<"/">> ELSE <<>>) \o body \o (IF trail THEN <<"/">> ELSE <<>>)

pathJoin(a, b) ==
    IF a = <<>> /\ b = <<>> THEN <<".">>
    ELSE IF a = <<>> THEN pathNormalize(b)
    ELSE IF b = <<>> THEN pathNormalize(a)
    ELSE pathNormalize(a \o <<"/">> \o b)

pathDirname(p) ==
    LET hasRoot == IsAbsolute(p)
        nonSl   == {k \in 2..Len(p) : p[k] # "/"}
    IN  IF p = <<>> THEN <<".">>
        ELSE IF nonSl = {} THEN (IF hasRoot THEN <<"/">> ELSE <<".">>)
        ELSE LET e  == CHOOSE k \in nonSl : \A j \in nonSl : j <= k
                 sl == {k \in 2..(e - 1) : p[k] = "/"}
             IN  IF sl = {} THEN (IF hasRoot THEN <<"/">> ELSE <<".">>)
                 ELSE LET end == CHOOSE k \in sl : \A j \in sl : j <= k
                      IN  IF hasRoot /\ end = 2 THEN <<"/", "/">>
                          ELSE SubSeq(p, 1, end - 1)

pathBasename(p) ==
    LET segs == Split(p)
    IN  IF segs = <<>> THEN <<>> ELSE segs[Len(segs)]

pathBasenameExt(p, ext) ==
    LET b == pathBasename(p)
    IN  IF ext # <<>> /\ EndsWith(b, ext) /\ Len(b) > Len(ext)
        THEN SubSeq(b, 1, Len(b) - Len(ext))
        ELSE b

pathExtname(p) ==
    LET b == pathBasename(p)
        k == LastIndexOf(b, ".")
    IN  IF k <= 1 \/ b = <<".", ".">> THEN <<>> ELSE SubSeq(b, k, Len(b))

RECURSIVE CommonLen(_, _)
CommonLen(a, b) ==
    IF a = <<>> \/ b = <<>> \/ Head(a) # Head(b) THEN 0
    ELSE 1 + CommonLen(Tail(a), Tail(b))

pathRelative(from, to) ==
    LET f == NormalizeSegs(Split(pathResolve(from)), <<>>, TRUE)
        t == NormalizeSegs(Split(pathResolve(to)), <<>>, TRUE)
        c == CommonLen(f, t)
    IN  JoinSegs([k \in 1..(Len(f) - c) |-> <<".", ".">>] \o SubSeq(t, c + 1, Len(t)))

-----------------------------------------------------------------------------
(* The file system the tool runs on.  process.cwd() is /w.                 *)
(*   /w/img/a.jpg  /w/img/n.txt  /w/img/s/b.PNG  /w/img2/a.jpg  /w/c.jpg   *)

n_w    == <<"w">>
n_img  == <<"i", "m", "g">>
n_img2 == <<"i", "m", "g", "2">>
n_s    == <<"s">>
n_ajpg == <<"a", ".", "j", "p", "g">>
n_bPNG == <<"b", ".", "P", "N", "G">>
n_ntxt == <<"n", ".", "t", "x", "t">>
n_cjpg == <<"c", ".", "j", "p", "g">>

Dir(n)  == [name |-> n, kind |-> "dir"]
File(n) == [name |-> n, kind |-> "file"]

(* The directory the command lines of the model run in.                    *)
BaseTree ==
    (<<>> :> <<Dir(n_w)>>) @@
    (<<n_w>> :> <<File(n_cjpg), Dir(n_img), Dir(n_img2)>>) @@
    (<<n_w, n_img>> :> <<File(n_ajpg), File(n_ntxt), Dir(n_s)>>) @@
    (<<n_w, n_img, n_s>> :> <<File(n_bPNG)>>) @@
    (<<n_w, n_img2>> :> <<File(n_ajpg)>>)

(* fs.readdirSync(dir, {withFileTypes: true}) of every directory, in the   *)
(* order the file system lists the entries.                                *)
Tree == disk

(* Pixel size of every image, as sharp(inputPath).metadata() reports it.   *)
Metadata ==
    (AbsPath(<<n_w, n_cjpg>>) :> [width |-> 4, height |-> 4]) @@
    (AbsPath(<<n_w, n_img, n_ajpg>>) :> [width |-> 4, height |-> 3]) @@
    (AbsPath(<<n_w, n_img, n_s, n_bPNG>>) :> [width |-> 8, height |-> 6]) @@
    (AbsPath(<<n_w, n_img2, n_ajpg>>) :> [width |-> 1, height |-> 1])

(* What the entry at segs is: "dir", "file", "other" (a socket, a device)  *)
(* or "none".  A directory that is listed by its parent but has no listing *)
(* of its own cannot be read.                                              *)
StaticKind(segs) ==
    IF segs = <<>> THEN "dir"
    ELSE LET parent == SubSeq(segs, 1, Len(segs) - 1)
         IN  IF /\ parent \in DOMAIN Tree
                /\ \E k \in 1..Len(Tree[parent]) : Tree[parent][k].name = segs[Len(segs)]
             THEN LET k == CHOOSE k \in 1..Len(Tree[parent]) :
                                  Tree[parent][k].name = segs[Len(segs)]
                  IN  Tree[parent][k].kind
             ELSE "none"

(* fs.statSync(p) of a resolved path p at the current moment: what was on  *)
(* disk at start, plus the directories and files the run has created.      *)
StatKind(p) ==
    LET k == StaticKind(Split(p))
    IN  IF k # "none" THEN k
        ELSE IF p \in mkdirs THEN "dir"
        ELSE IF p \in written THEN "file"
        ELSE "none"

existsSync(p) == StatKind(p) # "none"

isDirectory(p) == StatKind(p) = "dir"

isFile(p) == StatKind(p) = "file"

-----------------------------------------------------------------------------
(* src/utils/files.js *)

IMAGE_EXTENSIONS ==
    { <<".", "j", "p", "g">>, <<".", "j", "p", "e", "g">>, <<".", "p", "n", "g">>,
      <<".", "w", "e", "b", "p">>, <<".", "g", "i", "f">>, <<".", "t", "i", "f", "f">>,
      <<".", "t", "i", "f">> }

(* isImageFile comparing the extension as it is written.                   *)
isImageFile_CaseSensitive(filePath) == pathExtname(filePath) \in IMAGE_EXTENSIONS

isImageFile(filePath) == toLowerCase(pathExtname(filePath)) \in IMAGE_EXTENSIONS

(* fs.readdirSync(dirPath, {withFileTypes: true}).  When it throws, the    *)
(* catch of findImagesInDirectory logs the error and the function returns  *)
(* its still empty list, as it does for a directory without entries.       *)
readdirSync(dirPath) ==
    IF Split(dirPath) \in DOMAIN Tree THEN Tree[Split(dirPath)] ELSE <<>>

RECURSIVE findImagesInEntries(_, _)
findImagesInEntries(dirPath, entries) ==
    IF entries = <<>> THEN <<>>
    ELSE LET entry    == Head(entries)
             fullPath == pathJoin(dirPath, entry.name)
             found    == IF entry.kind = "dir"
                         THEN findImagesInEntries(fullPath, readdirSync(fullPath))
                         ELSE IF entry.kind = "file" /\ isImageFile(fullPath)
                         THEN <<pathResolve(fullPath)>>
                         ELSE <<>>
         IN  found \o findImagesInEntries(dirPath, Tail(entries))

findImagesInDirectory(dirPath) == findImagesInEntries(dirPath, readdirSync(dirPath))

(* findImages leaving its loop at the first path that does not exist.      *)
RECURSIVE findImages_StopAtMissing(_)
findImages_StopAtMissing(paths) ==
    IF paths = <<>> THEN <<>>
    ELSE LET absolutePath == pathResolve(Head(paths))
         IN  IF ~existsSync(absolutePath) THEN <<>>
             ELSE LET found == IF isDirectory(absolutePath)
                               THEN findImagesInDirectory(absolutePath)
                               ELSE IF isFile(absolutePath) /\ isImageFile(absolutePath)
                               THEN <<absolutePath>>
                               ELSE <<>>
                  IN  found \o findImages_StopAtMissing(Tail(paths))

RECURSIVE findImages(_)
findImages(paths) ==
    IF paths = <<>> THEN <<>>
    ELSE LET absolutePath == pathResolve(Head(paths))
             found == IF ~existsSync(absolutePath) THEN <<>>
                      ELSE IF isDirectory(absolutePath)
                      THEN findImagesInDirectory(absolutePath)
                      ELSE IF isFile(absolutePath) /\ isImageFile(absolutePath)
                      THEN <<absolutePath>>
                      ELSE <<>>
         IN  found \o findImages(Tail(paths))

-----------------------------------------------------------------------------
(* src/utils/output.js *)

s_imgwork == <<"-", "i", "m", "g", "w", "o", "r", "k">>

s_imgwork_output == <<"i", "m", "g", "w", "o", "r", "k", "-", "o", "u", "t", "p", "u", "t">>

(* resolveOutputPath with ./ and ../ resolved against the working          *)
(* directory, like every other --out value.                                *)
resolveOutputPath_CwdRelative(inputs, outOption) ==
    IF outOption # <<>>
    THEN [outputBase |-> pathResolve(outOption),
          isDirectory |-> TRUE, isSingleFile |-> FALSE]
    ELSE IF Len(inputs) = 1
    THEN LET inputPath == pathResolve(inputs[1])
         IN  IF isDirectory(inputPath)
             THEN [outputBase |-> inputPath \o s_imgwork,
                   isDirectory |-> TRUE, isSingleFile |-> FALSE]
             ELSE LET dir      == pathDirname(inputPath)
                      ext      == pathExtname(inputPath)
                      basename == pathBasenameExt(inputPath, ext)
                  IN  [outputBase |-> pathJoin(dir, basename \o s_imgwork \o ext),
                       isDirectory |-> FALSE, isSingleFile |-> TRUE]
    ELSE [outputBase |-> pathResolve2(cwd, s_imgwork_output),
          isDirectory |-> TRUE, isSingleFile |-> FALSE]

(* resolveOutputPath with the suffix of a single file put after the        *)
(* extension, as it is put after a directory's name.                       *)
resolveOutputPath_SuffixLast(inputs, outOption) ==
    IF outOption # <<>>
    THEN [outputBase |->
             IF StartsWith(outOption, <<".", "/">>) \/ StartsWith(outOption, <<".", ".", "/">>)
             THEN pathResolve2(pathDirname(pathResolve(inputs[1])), outOption)
             ELSE pathResolve(outOption),
          isDirectory |-> TRUE, isSingleFile |-> FALSE]
    ELSE IF Len(inputs) = 1
    THEN LET inputPath == pathResolve(inputs[1])
         IN  [outputBase |-> inputPath \o s_imgwork,
              isDirectory |-> isDirectory(inputPath),
              isSingleFile |-> ~isDirectory(inputPath)]
    ELSE [outputBase |-> pathResolve2(cwd, s_imgwork_output),
          isDirectory |-> TRUE, isSingleFile |-> FALSE]

(* resolveOutputPath taking a single input for a file without looking.     *)
resolveOutputPath_NoDirectoryTest(inputs, outOption) ==
    IF outOption # <<>>
    THEN [outputBase |->
             IF StartsWith(outOption, <<".", "/">>) \/ StartsWith(outOption, <<".", ".", "/">>)
             THEN pathResolve2(pathDirname(pathResolve(inputs[1])), outOption)
             ELSE pathResolve(outOption),
          isDirectory |-> TRUE, isSingleFile |-> FALSE]
    ELSE IF Len(inputs) = 1
    THEN LET inputPath == pathResolve(inputs[1])
             dir       == pathDirname(inputPath)
             ext       == pathExtname(inputPath)
             basename  == pathBasenameExt(inputPath, ext)
         IN  [outputBase |-> pathJoin(dir, basename \o s_imgwork \o ext),
              isDirectory |-> FALSE, isSingleFile |-> TRUE]
    ELSE [outputBase |-> pathResolve2(cwd, s_imgwork_output),
          isDirectory |-> TRUE, isSingleFile |-> FALSE]

resolveOutputPath(inputs, outOption) ==
    IF outOption # <<>>
    THEN [outputBase |->
             IF StartsWith(outOption, <<".", "/">>) \/ StartsWith(outOption, <<".", ".", "/">>)
             THEN pathResolve2(pathDirname(pathResolve(inputs[1])), outOption)
             ELSE pathResolve(outOption),
          isDirectory |-> TRUE, isSingleFile |-> FALSE]
    ELSE IF Len(inputs) = 1
    THEN LET inputPath == pathResolve(inputs[1])
         IN  IF isDirectory(inputPath)
             THEN [outputBase |-> inputPath \o s_imgwork,
                   isDirectory |-> TRUE, isSingleFile |-> FALSE]
             ELSE LET dir      == pathDirname(inputPath)
                      ext      == pathExtname(inputPath)
                      basename == pathBasenameExt(inputPath, ext)
                  IN  [outputBase |-> pathJoin(dir, basename \o s_imgwork \o ext),
                       isDirectory |-> FALSE, isSingleFile |-> TRUE]
    ELSE [outputBase |-> pathResolve2(cwd, s_imgwork_output),
          isDirectory |-> TRUE, isSingleFile |-> FALSE]

(* The for ... break loop: the first input whose resolved path is a string *)
(* prefix of inputFile; 0 when there is none.                              *)
OwnerIndex(inputFile, allInputs) ==
    LET hits == {k \in 1..Len(allInputs) : StartsWith(inputFile, pathResolve(allInputs[k]))}
    IN  IF hits = {} THEN 0 ELSE CHOOSE k \in hits : \A j \in hits : k <= j

BaseDir(inputFile, allInputs) ==
    LET k == OwnerIndex(inputFile, allInputs)
    IN  IF k = 0 THEN pathDirname(inputFile)
        ELSE LET inputAbsolute == pathResolve(allInputs[k])
             IN  IF isDirectory(inputAbsolute) THEN inputAbsolute
                 ELSE pathDirname(inputAbsolute)

(* outputBase.replace(new RegExp(ext + '$'), newExtension): ext is the     *)
(* extension outputBase ends with, so the match is that suffix.            *)
ReplaceExt(outputBase, ext, newExtension) ==
    SubSeq(outputBase, 1, Len(outputBase) - Len(ext)) \o newExtension

getOutputFilePath(inputFile, allInputs, info, newExtension) ==
    IF info.isSingleFile
    THEN IF newExtension # <<>>
         THEN ReplaceExt(info.outputBase, pathExtname(info.outputBase), newExtension)
         ELSE info.outputBase
    ELSE LET ext          == IF newExtension # <<>> THEN newExtension
                             ELSE pathExtname(inputFile)
             basename     == pathBasenameExt(inputFile, pathExtname(inputFile))
             baseDir      == BaseDir(inputFile, allInputs)
             relativePath == pathRelative(baseDir, pathDirname(inputFile))
             outputDir    == pathJoin(info.outputBase, relativePath)
         IN  pathJoin(outputDir, basename \o ext)

(* dirPath and every ancestor directory of it, as resolved paths.          *)
SelfAndAncestors(dirPath) ==
    LET segs == Split(dirPath)
    IN  {AbsPath(SubSeq(segs, 1, k)) : k \in 0..Len(segs)}

(* fs.mkdirSync(dirPath, {recursive: true}) throws ENOTDIR / EEXIST when a *)
(* component of dirPath is an existing file.                               *)
MkdirThrows(dirPath) ==
    ~existsSync(dirPath) /\ \E a \in SelfAndAncestors(dirPath) : isFile(a)

(* ensureDirectoryExists that creates nothing.                             *)
ensureDirectoryExists_Nothing(dirPath) == mkdirs

ensureDirectoryExists(dirPath) ==
    IF existsSync(dirPath) THEN mkdirs
    ELSE mkdirs \cup {a \in SelfAndAncestors(dirPath) : ~existsSync(a)}

-----------------------------------------------------------------------------
(* src/commands/*.js: what each transform does before it hands the image   *)
(* to the library.  A transform's validation error is "" when it has none. *)

Truthy(v) == v # <<>>

SUPPORTED_FORMATS ==
    { <<"j", "p", "e", "g">>, <<"j", "p", "g">>, <<"p", "n", "g">>,
      <<"w", "e", "b", "p">>, <<"t", "i", "f", "f">> }

getExtensionForFormat(format) ==
    LET normalized == toLowerCase(format)
    IN  IF normalized = <<"j", "p", "e", "g">> \/ normalized = <<"j", "p", "g">>
        THEN <<".", "j", "p", "g">>
        ELSE <<".">> \o normalized

convertImageError(opts) ==
    IF toLowerCase(opts.to) \notin SUPPORTED_FORMATS THEN "Unsupported format" ELSE ""

(* The position names of the command line and sharp's name for each.      *)
CENTER       == <<"c", "e", "n", "t", "e", "r">>
CENTRE       == <<"c", "e", "n", "t", "r", "e">>
TOP          == <<"t", "o", "p">>
NORTH        == <<"n", "o", "r", "t", "h">>
BOTTOM       == <<"b", "o", "t", "t", "o", "m">>
SOUTH        == <<"s", "o", "u", "t", "h">>
LEFT         == <<"l", "e", "f", "t">>
WEST         == <<"w", "e", "s", "t">>
RIGHT        == <<"r", "i", "g", "h", "t">>
EAST         == <<"e", "a", "s", "t">>
TOP_LEFT     == <<"t", "o", "p", "-", "l", "e", "f", "t">>
NORTHWEST    == <<"n", "o", "r", "t", "h", "w", "e", "s", "t">>
TOP_RIGHT    == <<"t", "o", "p", "-", "r", "i", "g", "h", "t">>
NORTHEAST    == <<"n", "o", "r", "t", "h", "e", "a", "s", "t">>
BOTTOM_LEFT  == <<"b", "o", "t", "t", "o", "m", "-", "l", "e", "f", "t">>
SOUTHWEST    == <<"s", "o", "u", "t", "h", "w", "e", "s", "t">>
BOTTOM_RIGHT == <<"b", "o", "t", "t", "o", "m", "-", "r", "i", "g", "h", "t">>
SOUTHEAST    == <<"s", "o", "u", "t", "h", "e", "a", "s", "t">>

POSITION_MAP ==
    (CENTER :> CENTRE) @@ (TOP :> NORTH) @@ (BOTTOM :> SOUTH) @@
    (LEFT :> WEST) @@ (RIGHT :> EAST) @@
    (TOP_LEFT :> NORTHWEST) @@ (TOP_RIGHT :> NORTHEAST) @@
    (BOTTOM_LEFT :> SOUTHWEST) @@ (BOTTOM_RIGHT :> SOUTHEAST)

(* parseDimension(value, originalSize): kind "null" (no value), "num", or  *)
(* "throw" (Invalid dimension value).                                      *)
parseDimension(value, originalSize) ==
    IF ~Truthy(value) THEN [kind |-> "null", val |-> 0]
    ELSE LET strValue == trim(toLowerCase(value))
         IN  IF strValue = <<"h", "a", "l", "f">>
             THEN [kind |-> "num", val |-> originalSize \div 2]
             ELSE IF strValue = <<"q", "u", "a", "r", "t", "e", "r">>
             THEN [kind |-> "num", val |-> originalSize \div 4]
             ELSE IF strValue = <<"t", "h", "i", "r", "d">>
             THEN [kind |-> "num", val |-> originalSize \div 3]
             ELSE LET num == parseInt(value)
                  IN  IF num.nan \/ num.val <= 0
                      THEN [kind |-> "throw", val |-> 0]
                      ELSE [kind |-> "num", val |-> num.val]

(* A parsed dimension used as a condition: null and 0 are falsy.           *)
DimTruthy(d) == d.kind = "num" /\ d.val # 0

(* resizeImage, before the metadata are read and after.                    *)
resizeImagePreError(opts) ==
    IF ~Truthy(opts.w) /\ ~Truthy(opts.h)
    THEN "At least one of --w (width) or --h (height) must be specified"
    ELSE ""

resizeImagePostError(opts, meta) ==
    IF parseDimension(opts.w, meta.width).kind = "throw" THEN "Invalid dimension value"
    ELSE IF parseDimension(opts.h, meta.height).kind = "throw" THEN "Invalid dimension value"
    ELSE ""

(* The resizeImage that takes numbers only: every check comes before the   *)
(* image is opened.                                                        *)
resizeImagePlainError(opts) ==
    IF ~Truthy(opts.w) /\ ~Truthy(opts.h)
    THEN "At least one of --w (width) or --h (height) must be specified"
    ELSE IF Truthy(opts.w) /\ (parseInt(opts.w).nan \/ parseInt(opts.w).val <= 0)
    THEN "Width must be a positive number"
    ELSE IF Truthy(opts.h) /\ (parseInt(opts.h).nan \/ parseInt(opts.h).val <= 0)
    THEN "Height must be a positive number"
    ELSE ""

(* The cropImage that resizes with fit 'cover': every check comes before   *)
(* the image is opened.                                                    *)
cropImageCoverError(opts) ==
    IF ~Truthy(opts.w) \/ ~Truthy(opts.h)
    THEN "Both --w (width) and --h (height) are required for cropping"
    ELSE IF parseInt(opts.w).nan \/ parseInt(opts.w).val <= 0
    THEN "Width must be a positive number"
    ELSE IF parseInt(opts.h).nan \/ parseInt(opts.h).val <= 0
    THEN "Height must be a positive number"
    ELSE IF toLowerCase(opts.pos) \notin DOMAIN POSITION_MAP THEN "Invalid position"
    ELSE ""

Max(a, b) == IF a >= b THEN a ELSE b

(* calculateCropCoordinates with 'right' anchored at the image's width.    *)
calculateCropCoordinates_RightEdge(imgWidth, imgHeight, cropWidth, cropHeight, position) ==
    LET midLeft == Max(0, (imgWidth - cropWidth) \div 2)
        midTop  == Max(0, (imgHeight - cropHeight) \div 2)
        endLeft == Max(0, imgWidth - cropWidth)
        endTop  == Max(0, imgHeight - cropHeight)
    IN  CASE position \in {CENTER, CENTRE}          -> [left |-> midLeft, top |-> midTop]
          [] position \in {TOP, NORTH}              -> [left |-> midLeft, top |-> 0]
          [] position \in {BOTTOM, SOUTH}           -> [left |-> midLeft, top |-> endTop]
          [] position \in {LEFT, WEST}              -> [left |-> 0, top |-> midTop]
          [] position \in {RIGHT, EAST}             -> [left |-> imgWidth, top |-> midTop]
          [] position \in {TOP_LEFT, NORTHWEST}     -> [left |-> 0, top |-> 0]
          [] position \in {TOP_RIGHT, NORTHEAST}    -> [left |-> endLeft, top |-> 0]
          [] position \in {BOTTOM_LEFT, SOUTHWEST}  -> [left |-> 0, top |-> endTop]
          [] position \in {BOTTOM_RIGHT, SOUTHEAST} -> [left |-> endLeft, top |-> endTop]
          [] OTHER                                   -> [left |-> midLeft, top |-> midTop]

(* Math.floor of a quotient is \div: both round towards minus infinity.    *)
calculateCropCoordinates(imgWidth, imgHeight, cropWidth, cropHeight, position) ==
    LET midLeft == Max(0, (imgWidth - cropWidth) \div 2)
        midTop  == Max(0, (imgHeight - cropHeight) \div 2)
        endLeft == Max(0, imgWidth - cropWidth)
        endTop  == Max(0, imgHeight - cropHeight)
    IN  CASE position \in {CENTER, CENTRE}          -> [left |-> midLeft, top |-> midTop]
          [] position \in {TOP, NORTH}              -> [left |-> midLeft, top |-> 0]
          [] position \in {BOTTOM, SOUTH}           -> [left |-> midLeft, top |-> endTop]
          [] position \in {LEFT, WEST}              -> [left |-> 0, top |-> midTop]
          [] position \in {RIGHT, EAST}             -> [left |-> endLeft, top |-> midTop]
          [] position \in {TOP_LEFT, NORTHWEST}     -> [left |-> 0, top |-> 0]
          [] position \in {TOP_RIGHT, NORTHEAST}    -> [left |-> endLeft, top |-> 0]
          [] position \in {BOTTOM_LEFT, SOUTHWEST}  -> [left |-> 0, top |-> endTop]
          [] position \in {BOTTOM_RIGHT, SOUTHEAST} -> [left |-> endLeft, top |-> endTop]
          [] OTHER                                   -> [left |-> midLeft, top |-> midTop]

(* cropImage with extract, before the metadata are read and after.         *)
cropImagePreError(opts) ==
    IF ~Truthy(opts.w) /\ ~Truthy(opts.h)
    THEN "At least one of --w (width) or --h (height) must be specified for cropping"
    ELSE IF toLowerCase(opts.pos) \notin DOMAIN POSITION_MAP THEN "Invalid position"
    ELSE ""

CropSize(opts, meta) ==
    LET pw == parseDimension(opts.w, meta.width)
        ph == parseDimension(opts.h, meta.height)
    IN  IF DimTruthy(pw) /\ ~DimTruthy(ph)
        THEN [width |-> pw.val, height |-> (pw.val * meta.height) \div meta.width]
        ELSE IF DimTruthy(ph) /\ ~DimTruthy(pw)
        THEN [width |-> (ph.val * meta.width) \div meta.height, height |-> ph.val]
        ELSE [width |-> pw.val, height |-> ph.val]

cropImagePostError(opts, meta) ==
    IF parseDimension(opts.w, meta.width).kind = "throw" THEN "Invalid dimension value"
    ELSE IF parseDimension(opts.h, meta.height).kind = "throw" THEN "Invalid dimension value"
    ELSE IF CropSize(opts, meta).width > meta.width THEN "Crop width exceeds image width"
    ELSE IF CropSize(opts, meta).height > meta.height THEN "Crop height exceeds image height"
    ELSE ""

optimizeImageError(opts) ==
    IF ~Truthy(opts.quality) /\ ~opts.lossless
    THEN "Either --quality <number> or --lossless flag must be specified"
    ELSE IF Truthy(opts.quality) /\ opts.lossless
    THEN "Cannot use both --quality and --lossless. Choose one."
    ELSE IF Truthy(opts.quality)
            /\ LET q == parseInt(opts.quality) IN q.nan \/ q.val < 1 \/ q.val > 100
    THEN "Quality must be a number between 1 and 100"
    ELSE ""

(* The error processFunc throws before it reads the image, whatever the    *)
(* image is.                                                               *)
PreError(c, opts) ==
    CASE c = "convert"  -> convertImageError(opts)
      [] c = "resize"   -> IF variant = 1 THEN resizeImagePreError(opts)
                           ELSE resizeImagePlainError(opts)
      [] c = "crop"     -> IF variant = 1 THEN cropImageCoverError(opts)
                           ELSE cropImagePreError(opts)
      [] c = "optimize" -> optimizeImageError(opts)

(* The error processFunc throws once it has read the image's metadata.     *)
PostError(c, opts, inputFile) ==
    CASE c = "convert"  -> ""
      [] c = "resize"   -> IF variant = 1 THEN resizeImagePostError(opts, Metadata[inputFile])
                           ELSE ""
      [] c = "crop"     -> IF variant = 1 THEN ""
                           ELSE cropImagePostError(opts, Metadata[inputFile])
      [] c = "optimize" -> ""

(* What the transform asks of the image library once its checks have       *)
(* passed.  A width or height is <<n>>, or <<>> for null.                  *)
NoLibraryCall ==
    [op |-> "none", width |-> <<>>, height |-> <<>>, left |-> 0, top |-> 0, fit |-> ""]

(* pipeline.resize(w, h, {fit: 'contain'}), resize(w, null), resize(null, h) *)
ResizeCall(w, h) ==
    IF DimTruthy(w) /\ DimTruthy(h)
    THEN [NoLibraryCall EXCEPT !.op = "resize", !.width = <<w.val>>, !.height = <<h.val>>,
                               !.fit = "contain"]
    ELSE IF DimTruthy(w)
    THEN [NoLibraryCall EXCEPT !.op = "resize", !.width = <<w.val>>]
    ELSE [NoLibraryCall EXCEPT !.op = "resize",
                               !.height = IF h.kind = "num" THEN <<h.val>> ELSE <<>>]

(* width ? parseInt(width, 10) : null, once it has passed the checks.      *)
PlainDimension(value) ==
    IF Truthy(value) THEN [kind |-> "num", val |-> parseInt(value).val]
    ELSE [kind |-> "null", val |-> 0]

LibraryCall(c, opts, inputFile) ==
    LET meta == Metadata[inputFile]
    IN  CASE c = "resize" /\ variant = 1 ->
               ResizeCall(parseDimension(opts.w, meta.width),
                          parseDimension(opts.h, meta.height))
          [] c = "resize" /\ variant # 1 ->
               ResizeCall(PlainDimension(opts.w), PlainDimension(opts.h))
          [] c = "crop" /\ variant = 1 ->
               [NoLibraryCall EXCEPT !.op = "resize",
                                     !.width = <<parseInt(opts.w).val>>,
                                     !.height = <<parseInt(opts.h).val>>,
                                     !.fit = "cover"]
          [] c = "crop" /\ variant # 1 ->
               LET size == CropSize(opts, meta)
                   at   == calculateCropCoordinates(meta.width, meta.height,
                                                    size.width, size.height,
                                                    POSITION_MAP[toLowerCase(opts.pos)])
               IN  [NoLibraryCall EXCEPT !.op = "extract",
                                         !.width = <<size.width>>, !.height = <<size.height>>,
                                         !.left = at.left, !.top = at.top]
          [] OTHER -> [NoLibraryCall EXCEPT !.op = "encode"]

-----------------------------------------------------------------------------
(* The command lines the model runs.                                       *)

NoOptions ==
    [to |-> <<>>, quality |-> <<>>, w |-> <<>>, h |-> <<>>, pos |-> <<>>,
     lossless |-> FALSE, out |-> <<>>]

(* convert: --to is required, --quality defaults to '80'.                  *)
ConvertOptions ==
    { [NoOptions EXCEPT !.to = t, !.quality = <<"8", "0">>] :
        t \in { <<"p", "n", "g">>, <<"J", "P", "G">>, <<"b", "m", "p">> } }

ResizeOptions ==
    { [NoOptions EXCEPT !.w = a, !.h = b] :
        a \in { <<>>, <<"2">>, <<"0">>, <<"a", "b">>, <<"h", "a", "l", "f">> },
        b \in { <<>>, <<"2">>, <<"q", "u", "a", "r", "t", "e", "r">> } }

(* crop: --w and --h are required, --pos defaults to 'center'.             *)
CropOptions ==
    { [NoOptions EXCEPT !.w = a, !.h = b, !.pos = q] :
        a \in { <<"2">>, <<"0">>, <<"a", "b">>, <<"9">> },
        b \in { <<"2">>, <<"q", "u", "a", "r", "t", "e", "r">> },
        q \in { <<"c", "e", "n", "t", "e", "r">>, <<"T", "o", "p">>, <<"m", "i", "d">>,
                <<"b", "o", "t", "t", "o", "m", "-", "r", "i", "g", "h", "t">> } }

OptimizeOptions ==
    { [NoOptions EXCEPT !.quality = q, !.lossless = l] :
        q \in { <<>>, <<"7", "0">>, <<"0">>, <<"1", "0", "1">> },
        l \in BOOLEAN }

CommandLines ==
    ({"convert"} \X ConvertOptions) \cup ({"resize"} \X ResizeOptions) \cup
    ({"crop"} \X CropOptions) \cup ({"optimize"} \X OptimizeOptions)

(* Input specifiers, as typed: img, /w/img2, img/s, c.jpg, and x and im,   *)
(* which do not exist.                                                     *)
Specifiers ==
    { n_img, AbsPath(<<n_w, n_img2>>), n_img \o <<"/">> \o n_s, n_cjpg,
      <<"x">>, <<"i", "m">> }

SpecifierLists == UNION { [1..n -> Specifiers] : n \in 1..MaxInputs }

(* --out values: none, o, ./o, ../o, /t/o, .o, img (an input), c.jpg (an   *)
(* existing file) and im (an input that does not exist).                   *)
OutOptions ==
    { <<>>, <<"o">>, <<".", "/", "o">>, <<".", ".", "/", "o">>,
      <<"/", "t", "/", "o">>, <<".", "o">>, n_img, n_cjpg, <<"i", "m">> }

(* resize.js and crop.js each hold two resizeImage / cropImage bodies;     *)
(* which of them the handler gets is not fixed by the source.              *)
Variants(c) == IF c \in {"resize", "crop"} THEN {1, 2} ELSE {1}

(* Every command line over a fixed pair of path arguments, and every       *)
(* combination of path arguments under one valid converting and one valid  *)
(* non-converting command line.                                            *)
Invocations ==
    UNION { { [cmd |-> c[1], options |-> c[2], files |-> <<n_img>>, variant |-> v] :
                v \in Variants(c[1]) } : c \in CommandLines }
    \cup
    { [cmd |-> c[1], options |-> [c[2] EXCEPT !.out = o], files |-> f, variant |-> 1] :
        c \in { <<"convert", [NoOptions EXCEPT !.to = <<"p", "n", "g">>,
                                                !.quality = <<"8", "0">>]>>,
                <<"resize", [NoOptions EXCEPT !.w = <<"2">>]>> },
        o \in OutOptions, f \in SpecifierLists }

-----------------------------------------------------------------------------
(* index.js and src/processor.js *)

Init ==
    /\ \E inv \in Invocations :
          /\ cmd = inv.cmd
          /\ options = inv.options
          /\ files = inv.files
          /\ variant = inv.variant
    /\ pc = "start"
    /\ images = <<>>
    /\ outputInfo = [outputBase |-> <<>>, isDirectory |-> FALSE, isSingleFile |-> FALSE]
    /\ i = 0
    /\ results = [total |-> 0, successful |-> 0, failed |-> 0, errors |-> <<>>]
    /\ outputPath = <<>>
    /\ mkdirs = {}
    /\ written = {}
    /\ calls = <<>>
    /\ attempted = <<>>
    /\ status = <<>>
    /\ exitCode = -1
    /\ disk = BaseTree
    /\ fnIn = <<>>
    /\ fnOut = <<>>

(* The checks an action handler makes before it looks for images: resize   *)
(* and optimize have one, convert and crop have none.                      *)
HandlerRejects ==
    \/ cmd = "resize" /\ ~Truthy(options.w) /\ ~Truthy(options.h)
    \/ cmd = "optimize" /\ ~Truthy(options.quality) /\ ~options.lossless

Validate ==
    /\ pc = "start"
    /\ pc' = IF HandlerRejects THEN "exited" ELSE "discover"
    /\ exitCode' = IF HandlerRejects THEN 1 ELSE exitCode
    /\ UNCHANGED << disk, variant, fnIn, fnOut, cmd, options, files, images, outputInfo, i, results,
                    outputPath, mkdirs, written, calls, attempted, status >>

Discover ==
    /\ pc = "discover"
    /\ images' = findImages(files)
    /\ pc' = IF Len(images') = 0 THEN "exited" ELSE "resolve"
    /\ exitCode' = IF Len(images') = 0 THEN 1 ELSE exitCode
    /\ UNCHANGED << disk, variant, fnIn, fnOut, cmd, options, files, outputInfo, i, results,
                    outputPath, mkdirs, written, calls, attempted, status >>

Resolve ==
    /\ pc = "resolve"
    /\ outputInfo' = resolveOutputPath(files, options.out)
    /\ pc' = "begin"
    /\ UNCHANGED << disk, variant, fnIn, fnOut, cmd, options, files, images, i, results,
                    outputPath, mkdirs, written, calls, attempted, status, exitCode >>

(* processImages up to its loop.                                           *)
Begin ==
    /\ pc = "begin"
    /\ results' = [total |-> Len(images), successful |-> 0, failed |-> 0, errors |-> <<>>]
    /\ i' = 1
    /\ status' = [k \in 1..Len(images) |-> "pending"]
    /\ pc' = IF Len(images) = 0 THEN "returned" ELSE "pending"
    /\ UNCHANGED << disk, variant, fnIn, fnOut, cmd, options, files, images, outputInfo,
                    outputPath, mkdirs, written, calls, attempted, exitCode >>

(* options.newExtension || null of the call the handler makes.             *)
NewExtension ==
    IF cmd = "convert" THEN getExtensionForFormat(options.to) ELSE <<>>

(* CatchBlock with the loop left on the first failure.                     *)
CatchBlock_Abort(message) ==
    /\ results' = [results EXCEPT
                     !.failed = @ + 1,
                     !.errors = Append(@, [file |-> pathBasename(images[i]),
                                           error |-> message])]
    /\ status' = [status EXCEPT ![i] = "failed"]
    /\ i' = i + 1
    /\ pc' = "summary"

(* CatchBlock with the error recorded but not counted.                     *)
CatchBlock_NoCount(message) ==
    /\ results' = [results EXCEPT
                     !.errors = Append(@, [file |-> pathBasename(images[i]),
                                           error |-> message])]
    /\ status' = [status EXCEPT ![i] = "failed"]
    /\ i' = i + 1
    /\ pc' = IF i + 1 > Len(images) THEN "summary" ELSE "pending"

(* The catch block, then the loop's i++ and test.                          *)
CatchBlock(message) ==
    /\ results' = [results EXCEPT
                     !.failed = @ + 1,
                     !.errors = Append(@, [file |-> pathBasename(images[i]),
                                           error |-> message])]
    /\ status' = [status EXCEPT ![i] = "failed"]
    /\ i' = i + 1
    /\ pc' = IF i + 1 > Len(images) THEN "summary" ELSE "pending"

(* results.successful++, then the loop's i++ and test.                     *)
Success ==
    /\ results' = [results EXCEPT !.successful = @ + 1]
    /\ status' = [status EXCEPT ![i] = "success"]
    /\ i' = i + 1
    /\ pc' = IF i + 1 > Len(images) THEN "summary" ELSE "pending"

(* One iteration up to the await: the output path, then its directory.     *)
Prepare ==
    /\ pc = "pending"
    /\ attempted' = Append(attempted, i)
    /\ outputPath' = getOutputFilePath(images[i], files, outputInfo, NewExtension)
    /\ IF MkdirThrows(pathDirname(outputPath'))
       THEN /\ CatchBlock("ENOTDIR")
            /\ UNCHANGED mkdirs
       ELSE /\ mkdirs' = ensureDirectoryExists(pathDirname(outputPath'))
            /\ pc' = "processing"
            /\ status' = [status EXCEPT ![i] = "processing"]
            /\ UNCHANGED << i, results >>
    /\ UNCHANGED << disk, variant, fnIn, fnOut, cmd, options, files, images, outputInfo, written, calls, exitCode >>

(* fs.mkdirSync fails for a reason the model does not see in the file      *)
(* system (permissions, a full disk).                                      *)
PrepareFault ==
    /\ pc = "pending"
    /\ attempted' = Append(attempted, i)
    /\ outputPath' = getOutputFilePath(images[i], files, outputInfo, NewExtension)
    /\ ~existsSync(pathDirname(outputPath'))
    /\ ~MkdirThrows(pathDirname(outputPath'))
    /\ CatchBlock("EACCES")
    /\ UNCHANGED << disk, variant, fnIn, fnOut, cmd, options, files, images, outputInfo, mkdirs, written, calls,
                    exitCode >>

Call ==
    [input |-> images[i], output |-> outputPath,
     lib |-> IF PreError(cmd, options) = "" /\ PostError(cmd, options, images[i]) = ""
             THEN LibraryCall(cmd, options, images[i])
             ELSE NoLibraryCall]

(* processFunc rejects its options: it throws the same error for every     *)
(* file, or one that depends on the size of the image.                     *)
TransformRejects ==
    /\ pc = "processing"
    /\ PreError(cmd, options) # "" \/ PostError(cmd, options, images[i]) # ""
    /\ calls' = Append(calls, Call)
    /\ CatchBlock(IF PreError(cmd, options) # "" THEN PreError(cmd, options)
                  ELSE PostError(cmd, options, images[i]))
    /\ UNCHANGED << disk, variant, fnIn, fnOut, cmd, options, files, images, outputInfo,
                    outputPath, mkdirs, written, attempted, exitCode >>

(* The image library fails on the file (corrupt input, unwritable output). *)
TransformFails ==
    /\ pc = "processing"
    /\ PreError(cmd, options) = ""
    /\ calls' = Append(calls, Call)
    /\ CatchBlock("codec failure")
    /\ UNCHANGED << disk, variant, fnIn, fnOut, cmd, options, files, images, outputInfo,
                    outputPath, mkdirs, written, attempted, exitCode >>

(* The image library writes the output file.                               *)
TransformSucceeds ==
    /\ pc = "processing"
    /\ PreError(cmd, options) = ""
    /\ PostError(cmd, options, images[i]) = ""
    /\ isDirectory(pathDirname(outputPath))
    /\ calls' = Append(calls, Call)
    /\ written' = written \cup {outputPath}
    /\ Success
    /\ UNCHANGED << disk, variant, fnIn, fnOut, cmd, options, files, images, outputInfo,
                    outputPath, mkdirs, attempted, exitCode >>

(* The summary is printed and processImages returns.                       *)
Return ==
    /\ pc = "summary"
    /\ pc' = "returned"
    /\ UNCHANGED << disk, variant, fnIn, fnOut, cmd, options, files, images, outputInfo, i, results,
                    outputPath, mkdirs, written, calls, attempted, status, exitCode >>

(* The handler ends without looking at the returned results: the process   *)
(* ends with status 0.                                                     *)
Exit ==
    /\ pc = "returned"
    /\ pc' = "exited"
    /\ exitCode' = 0
    /\ UNCHANGED << disk, variant, fnIn, fnOut, cmd, options, files, images, outputInfo, i, results,
                    outputPath, mkdirs, written, calls, attempted, status >>

Next ==
    \/ Validate
    \/ Discover
    \/ Resolve
    \/ Begin
    \/ Prepare
    \/ PrepareFault
    \/ TransformRejects
    \/ TransformFails
    \/ TransformSucceeds
    \/ Return
    \/ Exit

Spec == Init /\ [][Next]_vars

-----------------------------------------------------------------------------
(* findImages on its own, over directories of every shape: /w holds p and  *)
(* q, p holds s and up to MaxEntries other entries in any order, q may be  *)
(* unreadable.                                                             *)

n_p    == <<"p">>
n_q    == <<"q">>
n_aPNG == <<"a", ".", "P", "N", "G">>
n_lgif == <<"l", ".", "g", "i", "f">>

Other(n) == [name |-> n, kind |-> "other"]

PoolEntries == { File(n_ajpg), File(n_aPNG), File(n_ntxt), Other(n_lgif) }

Listings ==
    { l \in UNION { [1..n -> PoolEntries] : n \in 0..MaxEntries } :
        \A a, b \in 1..Len(l) : a # b => l[a] # l[b] }

FindTrees ==
    { (<<>> :> <<Dir(n_w)>>) @@ (<<n_w>> :> <<Dir(n_p), Dir(n_q)>>) @@
      (<<n_w, n_p>> :> pl) @@ (<<n_w, n_p, n_s>> :> sl) @@ ql :
        pl \in UNION { { <<Dir(n_s)>> \o l, l \o <<Dir(n_s)>> } : l \in Listings },
        sl \in { <<>>, <<File(n_ajpg)>>, <<File(n_ntxt), File(n_ajpg)>> },
        ql \in { <<>>, (<<n_w, n_q>> :> <<>>), (<<n_w, n_q>> :> <<File(n_ajpg)>>) } }

(* p, q, p/a.jpg and p/n.txt: the last two exist in some of the            *)
(* directories only.                                                       *)
FindSpecifiers ==
    { n_p, n_q, n_p \o <<"/">> \o n_ajpg, n_p \o <<"/">> \o n_ntxt }

FindSpecifierLists == UNION { [1..n -> FindSpecifiers] : n \in 1..MaxInputs }

InitFind ==
    /\ disk \in FindTrees
    /\ files \in FindSpecifierLists
    /\ cmd = "convert"
    /\ options = [NoOptions EXCEPT !.to = <<"p", "n", "g">>, !.quality = <<"8", "0">>]
    /\ variant = 1
    /\ pc = "discover"
    /\ images = <<>>
    /\ outputInfo = [outputBase |-> <<>>, isDirectory |-> FALSE, isSingleFile |-> FALSE]
    /\ i = 0
    /\ results = [total |-> 0, successful |-> 0, failed |-> 0, errors |-> <<>>]
    /\ outputPath = <<>>
    /\ mkdirs = {}
    /\ written = {}
    /\ calls = <<>>
    /\ attempted = <<>>
    /\ status = <<>>
    /\ exitCode = -1
    /\ fnIn = <<>>
    /\ fnOut = <<>>

SpecFind == InitFind /\ [][Discover]_vars

-----------------------------------------------------------------------------
(* Properties *)

Done(k) == status[k] \in {"success", "failed"}

BatchReturned == pc \in {"summary", "returned"} \/ (pc = "exited" /\ exitCode = 0)

InBatch == pc \in {"pending", "processing", "summary", "returned"}

(* C1: processImages never aborts early.  The try block is entered for the *)
(* files in list order, each exactly once, and when the batch returns      *)
(* every file has been attempted and has ended in success or failed,       *)
(* whichever files failed before it.                                       *)
C1_NeverAbortsEarly ==
    /\ attempted = [k \in 1..Len(attempted) |-> k]
    /\ BatchReturned =>
          /\ Len(attempted) = Len(images)
          /\ \A k \in 1..Len(images) : Done(k)

(* A batch that has returned in which a file failed and a later file was   *)
(* still processed.                                                        *)
C1_Witness ==
    /\ pc = "returned"
    /\ \E k \in 1..(Len(images) - 1) :
          status[k] = "failed" /\ status[k + 1] = "success"

(* C2: the exit status is non-zero exactly when a file failed or no image  *)
(* was discovered.                                                         *)
C2_ExitStatus ==
    pc = "exited" =>
        ((exitCode # 0) <=> (results.failed > 0 \/ Len(images) = 0))

(* The indexes of the failed files, in increasing order.                   *)
RECURSIVE FailedIndexes(_)
FailedIndexes(n) ==
    IF n = 0 THEN <<>>
    ELSE IF status[n] = "failed" THEN Append(FailedIndexes(n - 1), n)
    ELSE FailedIndexes(n - 1)

(* C3: successful + failed is the number of files completed and errors has *)
(* one entry per failed file, in the order of the files; when the batch    *)
(* returns, total is the number of files and equals successful + failed.   *)
C3_Counting ==
    InBatch =>
        /\ results.successful + results.failed
             = Cardinality({k \in 1..Len(images) : Done(k)})
        /\ results.successful = Cardinality({k \in 1..Len(images) : status[k] = "success"})
        /\ Len(results.errors) = results.failed
        /\ LET f == FailedIndexes(Len(images))
           IN  /\ Len(f) = Len(results.errors)
               /\ \A j \in 1..Len(f) :
                     results.errors[j].file = pathBasename(images[f[j]])
        /\ results.total = Len(images)
        /\ BatchReturned => results.total = results.successful + results.failed

(* A returned batch with two failed files of different names and a         *)
(* successful one.                                                         *)
C3_Witness ==
    /\ pc = "returned"
    /\ results.successful >= 1
    /\ results.failed >= 2
    /\ results.errors[1].file # results.errors[2].file

Untouched == attempted = <<>> /\ mkdirs = {} /\ calls = <<>> /\ results.errors = <<>>

(* C4: optimize with both --quality and --lossless fails validation before *)
(* any file is touched: no per-file step, no output directory, no call of  *)
(* the transform, and a non-zero exit.                                     *)
C4_BothOptionsRejectedFirst ==
    (cmd = "optimize" /\ Truthy(options.quality) /\ options.lossless) =>
        /\ Untouched
        /\ pc = "exited" => exitCode # 0

(* A width or height that is neither a keyword nor a positive number.      *)
InvalidDimension(value) == parseDimension(value, 1).kind = "throw"

GlobalValidationError ==
    \/ cmd = "convert" /\ toLowerCase(options.to) \notin SUPPORTED_FORMATS
    \/ cmd = "crop" /\ toLowerCase(options.pos) \notin DOMAIN POSITION_MAP
    \/ cmd \in {"resize", "crop"}
         /\ (InvalidDimension(options.w) \/ InvalidDimension(options.h))
    \/ cmd = "optimize" /\ ~options.lossless /\ Truthy(options.quality)
         /\ (parseInt(options.quality).nan \/ parseInt(options.quality).val < 1
               \/ parseInt(options.quality).val > 100)

(* C5: an unsupported convert format, an invalid crop position, an invalid *)
(* width or height of resize or crop, an out-of-range optimize quality     *)
(* fail the invocation with a non-zero exit before any file is processed:  *)
(* no output directory, no entry in the results.                           *)
C5_ValidationRejectedFirst ==
    GlobalValidationError =>
        /\ Untouched
        /\ pc = "exited" => exitCode # 0

(* p lies under root: root's components are a proper prefix of p's.        *)
IsUnder(root, p) ==
    LET r == Split(root)
        q == Split(p)
    IN  Len(r) < Len(q) /\ SubSeq(q, 1, Len(r)) = r

Mapped == outputPath # <<>>

CurrentFile == images[attempted[Len(attempted)]]

(* C6: with a DirectoryTree target, the output path of every file lies     *)
(* under the target root.                                                  *)
C6_UnderOutputRoot ==
    (Mapped /\ outputInfo.isDirectory) => IsUnder(outputInfo.outputBase, outputPath)

(* The specifiers that are ancestors of f, as resolved paths.              *)
AncestorSpecifiers(f) ==
    { d \in {pathResolve(files[k]) : k \in 1..Len(files)} : IsUnder(d, f) }

(* OUT/r/name.ext for the file D/r/name.ext, with the new extension when   *)
(* there is one.                                                           *)
MirroredPath(f, D, OUT, newExtension) ==
    LET fs   == Split(f)
        r    == SubSeq(fs, Len(Split(D)) + 1, Len(fs) - 1)
        last == fs[Len(fs)]
        dot  == LastIndexOf(last, ".")
        name == SubSeq(last, 1, dot - 1)
        ext  == IF newExtension # <<>> THEN newExtension ELSE SubSeq(last, dot, Len(last))
    IN  AbsPath(Split(OUT) \o r \o <<name \o ext>>)

(* C7: with a DirectoryTree target OUT, a file D/r/name.ext whose only     *)
(* ancestor among the specifiers is the directory D maps to OUT/r/name.ext *)
(* (or OUT/r/name + newExtension), whatever specifiers precede D.          *)
C7_MirrorsRelativePath ==
    (Mapped /\ outputInfo.isDirectory) =>
        \A D \in AncestorSpecifiers(CurrentFile) :
            (AncestorSpecifiers(CurrentFile) = {D} /\ StaticKind(Split(D)) = "dir") =>
                outputPath = MirroredPath(CurrentFile, D, outputInfo.outputBase, NewExtension)

(* C8: the output path handed to the transform is never the path of a      *)
(* discovered input file.                                                  *)
C8_InputsNeverWritten ==
    \A k \in 1..Len(calls) : \A j \in 1..Len(images) : calls[k].output # images[j]

Resolved == outputInfo.outputBase # <<>>

(* The components of a specifier's resolved path.                          *)
ResolvedSegs(spec) ==
    NormalizeSegs((IF IsAbsolute(spec) THEN <<>> ELSE Split(cwd)) \o Split(spec), <<>>, TRUE)

ParentSegs(spec) == SubSeq(ResolvedSegs(spec), 1, Len(ResolvedSegs(spec)) - 1)

(* C9: with an explicit output the target is a DirectoryTree; its root is  *)
(* the --out value resolved against the parent directory of the first      *)
(* specifier when it begins with ./ or ../, against the working directory  *)
(* otherwise.                                                              *)
C9_ExplicitOutput ==
    (Resolved /\ Truthy(options.out)) =>
        LET out    == options.out
            anchor == IF StartsWith(out, <<".", "/">>) \/ StartsWith(out, <<".", ".", "/">>)
                      THEN ParentSegs(files[1])
                      ELSE IF IsAbsolute(out) THEN <<>> ELSE Split(cwd)
        IN  outputInfo = [outputBase  |-> AbsPath(NormalizeSegs(anchor \o Split(out), <<>>, TRUE)),
                          isDirectory |-> TRUE, isSingleFile |-> FALSE]

(* --out ./o with the directory img/s as first specifier of two: /w/img/o. *)
C9_Witness ==
    /\ pc = "begin"
    /\ options.out = <<".", "/", "o">>
    /\ Len(files) = 2
    /\ outputInfo.outputBase = AbsPath(<<n_w, n_img, <<"o">>>>)

(* C10: without an explicit output, one directory specifier D gives a      *)
(* DirectoryTree at D-imgwork beside D, one file specifier dir/B.ext gives *)
(* a SingleFile dir/B-imgwork.ext, several specifiers give a DirectoryTree *)
(* at imgwork-output under the working directory.                          *)
C10_DefaultOutput ==
    (Resolved /\ ~Truthy(options.out)) =>
        IF Len(files) = 1
        THEN LET p      == ResolvedSegs(files[1])
                 parent == ParentSegs(files[1])
                 last   == p[Len(p)]
                 dot    == LastIndexOf(last, ".")
             IN  IF StaticKind(p) = "dir"
                 THEN outputInfo =
                        [outputBase  |-> AbsPath(parent \o <<last \o <<"-", "i", "m", "g", "w", "o", "r", "k">>>>),
                         isDirectory |-> TRUE, isSingleFile |-> FALSE]
                 ELSE outputInfo =
                        [outputBase  |-> AbsPath(parent \o
                                           <<SubSeq(last, 1, dot - 1)
                                               \o <<"-", "i", "m", "g", "w", "o", "r", "k">>
                                               \o SubSeq(last, dot, Len(last))>>),
                         isDirectory |-> FALSE, isSingleFile |-> TRUE]
        ELSE outputInfo =
               [outputBase  |-> AbsPath(Split(cwd) \o <<s_imgwork_output>>),
                isDirectory |-> TRUE, isSingleFile |-> FALSE]

(* The single file c.jpg without --out: /w/c-imgwork.jpg.                   *)
C10_Witness ==
    /\ pc = "begin"
    /\ ~Truthy(options.out)
    /\ Len(files) = 1
    /\ outputInfo.isSingleFile
    /\ outputInfo.outputBase =
         AbsPath(<<n_w, <<"c", "-", "i", "m", "g", "w", "o", "r", "k", ".", "j", "p", "g">>>>)

-----------------------------------------------------------------------------
(* calculateCropCoordinates and parseDimension on their own: fnIn is the   *)
(* function's name and its arguments.                                      *)

Range(f) == { f[x] : x \in DOMAIN f }

(* The names a position can be given by: the command line's, sharp's, and  *)
(* one that is neither.                                                    *)
Positions == (DOMAIN POSITION_MAP) \cup Range(POSITION_MAP) \cup { <<"m", "i", "d">> }

CropArguments ==
    { << "calculateCropCoordinates",
         [imgWidth |-> iw, imgHeight |-> ih, cropWidth |-> cw, cropHeight |-> ch,
          position |-> p] >> :
        iw \in 1..MaxSize, ih \in 1..MaxSize, cw \in 1..MaxSize, ch \in 1..MaxSize,
        p \in Positions }

(* none, half, Quarter, ' third ', 2, ' 3', 0, -1, ab, 3px and 1.5         *)
DimensionValues ==
    { <<>>, <<"h", "a", "l", "f">>, <<"Q", "u", "a", "r", "t", "e", "r">>,
      <<" ", "t", "h", "i", "r", "d", " ">>, <<"2">>, <<" ", "3">>, <<"0">>, <<"-", "1">>,
      <<"a", "b">>, <<"3", "p", "x">>, <<"1", ".", "5">> }

DimensionArguments ==
    { << "parseDimension", [value |-> v, originalSize |-> n] >> :
        v \in DimensionValues, n \in 1..MaxSize }

InitPure ==
    /\ fnIn \in CropArguments \cup DimensionArguments
    /\ fnOut = <<>>
    /\ pc = "call"
    /\ disk = BaseTree
    /\ cmd = "crop"
    /\ options = NoOptions
    /\ files = <<>>
    /\ variant = 2
    /\ images = <<>>
    /\ outputInfo = [outputBase |-> <<>>, isDirectory |-> FALSE, isSingleFile |-> FALSE]
    /\ i = 0
    /\ results = [total |-> 0, successful |-> 0, failed |-> 0, errors |-> <<>>]
    /\ outputPath = <<>>
    /\ mkdirs = {}
    /\ written = {}
    /\ calls = <<>>
    /\ attempted = <<>>
    /\ status = <<>>
    /\ exitCode = -1

CallCalculateCropCoordinates ==
    /\ pc = "call"
    /\ fnIn[1] = "calculateCropCoordinates"
    /\ fnOut' = calculateCropCoordinates(fnIn[2].imgWidth, fnIn[2].imgHeight,
                                         fnIn[2].cropWidth, fnIn[2].cropHeight,
                                         fnIn[2].position)
    /\ pc' = "called"
    /\ UNCHANGED << disk, variant, fnIn, cmd, options, files, images, outputInfo, i,
                    results, outputPath, mkdirs, written, calls, attempted, status,
                    exitCode >>

CallParseDimension ==
    /\ pc = "call"
    /\ fnIn[1] = "parseDimension"
    /\ fnOut' = parseDimension(fnIn[2].value, fnIn[2].originalSize)
    /\ pc' = "called"
    /\ UNCHANGED << disk, variant, fnIn, cmd, options, files, images, outputInfo, i,
                    results, outputPath, mkdirs, written, calls, attempted, status,
                    exitCode >>

SpecPure == InitPure /\ [][CallCalculateCropCoordinates \/ CallParseDimension]_vars

-----------------------------------------------------------------------------
(* Discovery *)

Discovered == pc \notin {"start", "discover"}

(* A file name that ends in a recognized extension, whatever its case.     *)
Recognized(name) ==
    \E e \in IMAGE_EXTENSIONS : Len(name) > Len(e) /\ EndsWith(toLowerCase(name), e)

(* The regular files with a recognized name in the readable directories at *)
(* and below the directory root, each as its path segments.                *)
RecognizedUnder(root) ==
    UNION { { Append(d, Tree[d][k].name) :
                k \in { k \in 1..Len(Tree[d]) :
                          Tree[d][k].kind = "file" /\ Recognized(Tree[d][k].name) } } :
            d \in { d \in DOMAIN Tree : Len(root) <= Len(d) /\ SubSeq(d, 1, Len(root)) = root } }

ImageSet == { Split(images[k]) : k \in 1..Len(images) }

(* C11: for one directory specifier, findImages returns each regular file  *)
(* with a recognized extension (compared without regard to case) at any    *)
(* depth below it exactly once, and nothing else.                          *)
C11_ExactlyTheRecognizedFiles ==
    (Discovered /\ Len(files) = 1 /\ isDirectory(pathResolve(files[1]))) =>
        /\ Len(images) = Cardinality(RecognizedUnder(Split(pathResolve(files[1]))))
        /\ ImageSet = RecognizedUnder(Split(pathResolve(files[1])))

(* p holds a.PNG and n.txt, p/s holds a.jpg; p is the only specifier.      *)
C11_Witness ==
    /\ Discovered
    /\ files = <<n_p>>
    /\ \E k \in 1..Len(Tree[<<n_w, n_p>>]) : Tree[<<n_w, n_p>>][k] = File(n_ntxt)
    /\ <<n_w, n_p, n_aPNG>> \in ImageSet
    /\ <<n_w, n_p, n_s, n_ajpg>> \in ImageSet
    /\ Len(images) = 2

(* What one specifier contributes: a directory its recognized files, an    *)
(* image file itself, anything else nothing.                               *)
Owned(specifier) ==
    LET a == pathResolve(specifier)
    IN  IF isDirectory(a) THEN RecognizedUnder(Split(a))
        ELSE IF isFile(a) /\ Recognized(pathBasename(a)) THEN {Split(a)}
        ELSE {}

(* The position of each segment of segs below root in the listing of its   *)
(* parent directory.                                                       *)
IndexPath(root, segs) ==
    [j \in 1..(Len(segs) - Len(root)) |->
        LET parent == SubSeq(segs, 1, Len(root) + j - 1)
        IN  CHOOSE k \in 1..Len(Tree[parent]) : Tree[parent][k].name = segs[Len(root) + j]]

(* a comes before b in a depth-first walk that follows the listings.       *)
LexLess(a, b) ==
    \E n \in 1..Len(a) :
        /\ n <= Len(b)
        /\ a[n] < b[n]
        /\ \A m \in 1..(n - 1) : a[m] = b[m]

(* How many files the specifiers before the k-th contribute.               *)
RECURSIVE Offset(_)
Offset(k) == IF k = 1 THEN 0 ELSE Offset(k - 1) + Cardinality(Owned(files[k - 1]))

(* C12: the result of findImages is the contributions of the specifiers in *)
(* the order of the specifiers, a directory's files in the order of a      *)
(* depth-first walk; a specifier that does not exist or is not an image    *)
(* contributes nothing and the specifiers after it still contribute.       *)
C12_SpecifierOrder ==
    Discovered =>
        /\ Len(images) = Offset(Len(files) + 1)
        /\ \A k \in 1..Len(files) :
              LET root == Split(pathResolve(files[k]))
                  at(m) == Split(images[Offset(k) + m])
                  n == Cardinality(Owned(files[k]))
              IN  /\ \A m \in 1..n : at(m) \in Owned(files[k])
                  /\ \A m, o \in 1..n :
                        m < o => LexLess(IndexPath(root, at(m)), IndexPath(root, at(o)))

(* The first specifier does not exist; the second is p, whose s comes      *)
(* before a.jpg in the listing.                                            *)
C12_Witness ==
    /\ Discovered
    /\ Len(files) = 2
    /\ ~existsSync(pathResolve(files[1]))
    /\ files[2] = n_p
    /\ images = << AbsPath(<<n_w, n_p, n_s, n_ajpg>>), AbsPath(<<n_w, n_p, n_ajpg>>) >>

-----------------------------------------------------------------------------
(* Transforms *)

(* The command line asks for more pixels than the image has, in width or   *)
(* in height.                                                              *)
RequestExceeds(inputFile) ==
    \/ ~parseInt(options.w).nan /\ parseInt(options.w).val > Metadata[inputFile].width
    \/ ~parseInt(options.h).nan /\ parseInt(options.h).val > Metadata[inputFile].height

(* C13: a crop that asks for more than the source's width or height never  *)
(* succeeds for that file and never reaches the image library: the file    *)
(* fails and nothing is scaled up or clamped.                              *)
C13_CropNeverExceedsSource ==
    cmd = "crop" =>
        /\ \A k \in 1..Len(status) :
              RequestExceeds(images[k]) => status[k] # "success"
        /\ \A k \in 1..Len(calls) :
              RequestExceeds(calls[k].input) => calls[k].lib = NoLibraryCall

-----------------------------------------------------------------------------
(* Path mapping, again *)

(* C14: getOutputFilePath called again with the arguments of the call the  *)
(* loop made for the current file returns the path that call returned,     *)
(* whatever directories the batch has created in between.                  *)
C14_MappingStable ==
    Mapped => getOutputFilePath(CurrentFile, files, outputInfo, NewExtension) = outputPath

(* C15: a SingleFile target goes with a batch of exactly one file.         *)
C15_SingleFileOneImage ==
    outputInfo.isSingleFile => Len(images) = 1

(* c.jpg alone, without --out, being processed.                            *)
C15_Witness ==
    /\ pc = "processing"
    /\ outputInfo.isSingleFile
    /\ files = <<n_cjpg>>
    /\ images = <<AbsPath(<<n_w, n_cjpg>>)>>

-----------------------------------------------------------------------------
(* The loop of processImages, per file *)

(* The directory of the current output path is there.                      *)
DirEnsured == existsSync(pathDirname(outputPath))

(* Where the loop stands: the files before i have ended, the files after i *)
(* are pending, and file i is being processed only with its output         *)
(* directory in place.                                                     *)
C16_State ==
    pc \in {"pending", "processing"} =>
        /\ \A k \in 1..Len(status) :
              /\ k < i => Done(k)
              /\ k > i => status[k] = "pending"
        /\ pc = "pending" => status[i] = "pending"
        /\ pc = "processing" =>
              /\ status[i] = "processing"
              /\ DirEnsured

(* What one step may do: a file that has ended stays as it ended, success  *)
(* comes after processing and processing after pending only, and the       *)
(* transform is called for the file being processed, with its output       *)
(* directory in place and every earlier file ended; the call ends the file. *)
C16_Step ==
    /\ \A k \in (DOMAIN status) \cap (DOMAIN status') :
          /\ Done(k) => status'[k] = status[k]
          /\ (status'[k] # status[k] /\ status'[k] = "success") => status[k] = "processing"
          /\ (status'[k] # status[k] /\ status'[k] = "processing") => status[k] = "pending"
    /\ calls' # calls =>
          /\ calls' = Append(calls, [input |-> images[i], output |-> outputPath,
                                     lib |-> calls'[Len(calls')].lib])
          /\ status[i] = "processing"
          /\ DirEnsured
          /\ \A k \in 1..(i - 1) : Done(k)
          /\ status'[i] \in {"success", "failed"}

(* C16: per file the order is pending, output directory ensured,           *)
(* processing, then exactly one of success and failed, and the transform   *)
(* of a file is not called before the file before it has ended.            *)
C16_PerFileOrder == [](C16_State) /\ [][C16_Step]_vars

(* The second file is being processed in a directory the batch created,    *)
(* after the first one succeeded.                                          *)
C16_Witness ==
    /\ pc = "processing"
    /\ i = 2
    /\ status[1] = "success"
    /\ Len(calls) = 1
    /\ pathDirname(outputPath) \in mkdirs

(* C17: with a DirectoryTree target, two different input files of one      *)
(* batch are never given the same output path.                             *)
C17_OutputPathsDistinct ==
    outputInfo.isDirectory =>
        \A j, k \in 1..Len(calls) :
            calls[j].input # calls[k].input => calls[j].output # calls[k].output

-----------------------------------------------------------------------------
(* Crop regions and dimensions *)

Called(fn) == pc = "called" /\ fnIn[1] = fn

(* C18: for a crop region no larger than the image, whatever the position, *)
(* calculateCropCoordinates returns a left and a top that keep the region  *)
(* inside the image.                                                       *)
C18_RegionInsideSource ==
    (/\ Called("calculateCropCoordinates")
     /\ fnIn[2].cropWidth <= fnIn[2].imgWidth
     /\ fnIn[2].cropHeight <= fnIn[2].imgHeight) =>
        /\ fnOut.left >= 0
        /\ fnOut.top >= 0
        /\ fnOut.left + fnIn[2].cropWidth <= fnIn[2].imgWidth
        /\ fnOut.top + fnIn[2].cropHeight <= fnIn[2].imgHeight

(* A 3x1 region at the bottom right of a 4x3 image starts at (1, 2).       *)
C18_Witness ==
    /\ Called("calculateCropCoordinates")
    /\ fnIn[2] = [imgWidth |-> 4, imgHeight |-> 3, cropWidth |-> 3, cropHeight |-> 1,
                  position |-> SOUTHEAST]
    /\ fnOut = [left |-> 1, top |-> 2]

(* C19: for a value that was supplied and an image of at least one pixel,  *)
(* parseDimension throws or returns an integer that is at least 1.         *)
C19_DimensionPositive ==
    (Called("parseDimension") /\ Truthy(fnIn[2].value)) =>
        \/ fnOut.kind = "throw"
        \/ fnOut.kind = "num" /\ fnOut.val >= 1
====
